---- MODULE Spec2Model ----
(***************************************************************************)
(* ButtonDebounce: one debouncer object, built with exactly one of the     *)
(* three engines (Integrator, Consecutive, EdgeGated), driven by a caller  *)
(* that issues reset(start_down) and update(raw_down) calls.               *)
(*                                                                         *)
(* All uint8_t fields are integers in 0..255; every expression the source  *)
(* casts to uint8_t is reduced with U8.                                    *)
(***************************************************************************)
EXTENDS Integers, Naturals, Sequences, FiniteSets, TLC

(***************************************************************************)
(* Bounds of the model (configurations and bookkeeping).                   *)
(***************************************************************************)
\* Integrator configurations: integ_max in 0..MaxIntegMax, integ_on and
\* integ_off in 0..MaxIntegMax+1 (so out-of-range thresholds are included).
MaxIntegMax == 6
\* Consecutive configurations: consec_n in 0..MaxConsecN (0 and >8 included).
MaxConsecN == 9
\* EdgeGated configurations: consec_n in 0..MaxEdgeN plus 8 and 9,
\* edge_threshold in 0..MaxEdgeThr plus 4 and 8, unstable_timeout in
\* 0..MaxTimeout, bounce_confirm in 0..MaxConfirm.
MaxEdgeN == 2
MaxEdgeThr == 2
MaxTimeout == 3
MaxConfirm == 2
\* EdgeGated configurations of the held-input caller: consec_n in
\* 1..MaxHoldN, edge_threshold in 1..MaxHoldThr, unstable_timeout in
\* 1..MaxHoldTimeout, bounce_confirm in 1..MaxHoldConfirm.
MaxHoldN == 2
MaxHoldThr == 2
MaxHoldTimeout == 2
MaxHoldConfirm == 2
\* The length of a run of equal raw samples is counted exactly up to MaxRun.
MaxRun == 10
\* The number of updates since the last event is counted exactly below
\* MaxSince.
MaxSince == 7
\* The largest value of a uint8_t field.
U8Max == 255

(***************************************************************************)
(* 8-bit arithmetic.                                                       *)
(***************************************************************************)
U8(x) == x % 256

\* The element of a singleton set.  { e(v) : v \in {d} } evaluates d once and
\* binds v to its value, like an assignment to a local; The takes the
\* result out.
The(S) == CHOOSE v \in S : TRUE

\* 1u << n, for n in 0..8.
Pow2(n) == <<1, 2, 4, 8, 16, 32, 64, 128, 256>>[n + 1]

\* x & y, x ^ y on 8-bit operands, bit by bit (p is the weight of the bit).
BitAnd8(x, y) ==
    LET b(p) == IF (x \div p) % 2 = 1 /\ (y \div p) % 2 = 1 THEN p ELSE 0
    IN  b(1) + b(2) + b(4) + b(8) + b(16) + b(32) + b(64) + b(128)

BitXor8(x, y) ==
    LET b(p) == IF (x \div p) % 2 # (y \div p) % 2 THEN p ELSE 0
    IN  b(1) + b(2) + b(4) + b(8) + b(16) + b(32) + b(64) + b(128)

\* x | y where x fits in 9 bits (the int value of *h << 1) and y in 8.
BitOr9(x, y) ==
    LET b(p) == IF (x \div p) % 2 = 1 \/ (y \div p) % 2 = 1 THEN p ELSE 0
    IN  b(1) + b(2) + b(4) + b(8) + b(16) + b(32) + b(64) + b(128) + b(256)

(***************************************************************************)
(* Shared helpers of the history engines (buttonDebounce.h).               *)
(***************************************************************************)
\* x0 is the argument, x1 and x2 its value after the first and the second
\* assignment to x.
popcount8(x) ==
    The({ U8(BitAnd8(U8(x2 + (x2 \div 16)), 15)) :
          x2 \in { U8(BitAnd8(x1, 51) + BitAnd8(x1 \div 4, 51)) :
                   x1 \in { U8(BitAnd8(x0, 85) + BitAnd8(x0 \div 2, 85)) :
                            x0 \in {x} } } })

edgeCount8(hist) ==
    The({ popcount8(t) : t \in { U8(BitXor8(h, h \div 2)) : h \in {hist} } })

\* Mutant of update_hist: the register shifts right, newest sample in bit 7.
update_hist_msb(h, raw_down) ==
    (h \div 2) + (IF raw_down THEN 128 ELSE 0)

\* static void update_hist(uint8_t* h, bool raw_down): the new value of *h.
update_hist(h, raw_down) ==
    U8(BitOr9(h * 2, IF raw_down THEN 1 ELSE 0))

\* Mutants of Mask: one bit too wide, one bit too narrow.
Mask_wide(n) == IF n >= 8 THEN 255 ELSE U8(Pow2(n + 1) - 1)
Mask_narrow(n) == IF n >= 8 THEN 255 ELSE U8((Pow2(n) \div 2) - 1)

\* Mutant of Mask: n = 0 is treated as n = 1.
Mask_atleast1(n) == IF n >= 8 THEN 255 ELSE IF n = 0 THEN 1 ELSE U8(Pow2(n) - 1)

\* mask = (n >= 8u) ? 0xFFu : (uint8_t)((1u << n) - 1u)
Mask(n) == IF n >= 8 THEN 255 ELSE U8(Pow2(n) - 1)

\* state_ ? 0xFFu : 0x00u
LevelPattern(down) == IF down THEN 255 ELSE 0

(***************************************************************************)
(* Config, with the defaults of the header.                                *)
(***************************************************************************)
DefaultConfig ==
    [integ_max |-> 6, integ_on |-> 4, integ_off |-> 2,
     consec_n |-> 3,
     edge_threshold |-> 4, unstable_timeout |-> 16, bounce_confirm |-> 1]

Engines == {"Integrator", "Consecutive", "EdgeGated"}

IntegratorConfigs ==
    { [DefaultConfig EXCEPT !.integ_max = m, !.integ_on = on, !.integ_off = off] :
        m \in 0..MaxIntegMax, on \in 0..(MaxIntegMax + 1), off \in 0..(MaxIntegMax + 1) }

ConsecutiveConfigs ==
    { [DefaultConfig EXCEPT !.consec_n = n] : n \in 0..MaxConsecN }

EdgeGatedConfigs ==
    { [DefaultConfig EXCEPT !.consec_n = n, !.edge_threshold = e,
                            !.unstable_timeout = t, !.bounce_confirm = k] :
        n \in (0..MaxEdgeN) \cup {8, 9},
        e \in (0..MaxEdgeThr) \cup {4, 8},
        t \in 0..MaxTimeout,
        k \in 0..MaxConfirm }

ConfigsOf(e) ==
    CASE e = "Integrator"  -> IntegratorConfigs
      [] e = "Consecutive" -> ConsecutiveConfigs
      [] e = "EdgeGated"   -> EdgeGatedConfigs

(***************************************************************************)
(* The object: o = [state_, pressed_, released_, acc, hist, unstable,      *)
(* bounce_k, loc].  The union eng_ holds acc for the Integrator build and  *)
(* hist/unstable/bounce_k for the history builds; a build only ever        *)
(* accesses its own member, the other fields stay 0 here.  loc is no field *)
(* of the class: it keeps the values the locals of the last update call    *)
(* had (EdgeGated), so that properties can speak about them.               *)
(***************************************************************************)
NoLocals == [hist |-> 0, edges |-> 0, bouncing_now |-> FALSE, bouncing |-> FALSE,
             bounce_k |-> 0, unstable |-> 0, timeout |-> FALSE]

Fresh ==
    [state_ |-> FALSE, pressed_ |-> FALSE, released_ |-> FALSE,
     acc |-> 0, hist |-> 0, unstable |-> 0, bounce_k |-> 0, loc |-> NoLocals]

(***************************************************************************)
(* Integrator engine (buttonDebounceIntegrator.cpp).                       *)
(***************************************************************************)
\* Mutant of Integrator_reset: acc is always cleared.
Integrator_reset_acc0(c, o, start_down) ==
    [o EXCEPT !.state_ = start_down, !.pressed_ = FALSE, !.released_ = FALSE,
              !.acc = 0, !.loc = NoLocals]

Integrator_reset(c, o, start_down) ==
    [o EXCEPT !.state_ = start_down, !.pressed_ = FALSE, !.released_ = FALSE,
              !.acc = IF start_down THEN c.integ_max ELSE 0, !.loc = NoLocals]

\* Mutant of Integrator_step: the integrator saturates one below integ_max.
Integrator_step_short(c, acc, raw_down) ==
    IF raw_down
    THEN (IF acc + 1 < c.integ_max THEN U8(acc + 1) ELSE acc)
    ELSE (IF acc > 0 THEN U8(acc - 1) ELSE acc)

\* The saturating integrator step: the new value of acc.
Integrator_step(c, acc, raw_down) ==
    IF raw_down
    THEN (IF acc < c.integ_max THEN U8(acc + 1) ELSE acc)
    ELSE (IF acc > 0 THEN U8(acc - 1) ELSE acc)

\* Mutants of Integrator_thresholds: strict comparison with integ_on, strict
\* comparison with integ_off.
Integrator_thresholds_gt(c, o) ==
    IF ~o.state_ /\ o.acc > c.integ_on
    THEN [o EXCEPT !.state_ = TRUE, !.pressed_ = TRUE]
    ELSE IF o.state_ /\ o.acc <= c.integ_off
         THEN [o EXCEPT !.state_ = FALSE, !.released_ = TRUE]
         ELSE o

Integrator_thresholds_lt(c, o) ==
    IF ~o.state_ /\ o.acc >= c.integ_on
    THEN [o EXCEPT !.state_ = TRUE, !.pressed_ = TRUE]
    ELSE IF o.state_ /\ o.acc < c.integ_off
         THEN [o EXCEPT !.state_ = FALSE, !.released_ = TRUE]
         ELSE o

\* Mutant of Integrator_thresholds: one threshold, no hysteresis band.
Integrator_thresholds_single(c, o) ==
    IF ~o.state_ /\ o.acc >= c.integ_on
    THEN [o EXCEPT !.state_ = TRUE, !.pressed_ = TRUE]
    ELSE IF o.state_ /\ o.acc < c.integ_on
         THEN [o EXCEPT !.state_ = FALSE, !.released_ = TRUE]
         ELSE o

\* The hysteresis thresholds, applied to an object whose flags are cleared.
Integrator_thresholds(c, o) ==
    IF ~o.state_ /\ o.acc >= c.integ_on
    THEN [o EXCEPT !.state_ = TRUE, !.pressed_ = TRUE]
    ELSE IF o.state_ /\ o.acc <= c.integ_off
         THEN [o EXCEPT !.state_ = FALSE, !.released_ = TRUE]
         ELSE o

\* Mutant of Integrator_update: the one-shot flags are not cleared first.
Integrator_update_noclear(c, o, raw_down) ==
    Integrator_thresholds(c, [o EXCEPT !.acc = Integrator_step(c, o.acc, raw_down)])

Integrator_update(c, o, raw_down) ==
    LET o1 == [o EXCEPT !.pressed_ = FALSE, !.released_ = FALSE]
        o2 == [o1 EXCEPT !.acc = Integrator_step(c, o1.acc, raw_down)]
    IN  Integrator_thresholds(c, o2)

Integrator_history(o) == 0

(***************************************************************************)
(* Consecutive engine (buttonDebounceConsecutive.cpp).                     *)
(***************************************************************************)
\* Mutant of Consecutive_reset: the history is filled with the opposite level.
Consecutive_reset_inverted(c, o, start_down) ==
    [o EXCEPT !.state_ = start_down, !.pressed_ = FALSE, !.released_ = FALSE,
              !.hist = LevelPattern(~start_down), !.unstable = 0, !.bounce_k = 0,
              !.loc = NoLocals]

Consecutive_reset(c, o, start_down) ==
    [o EXCEPT !.state_ = start_down, !.pressed_ = FALSE, !.released_ = FALSE,
              !.hist = LevelPattern(start_down), !.unstable = 0, !.bounce_k = 0,
              !.loc = NoLocals]

\* Mutant of Consecutive_accept: the release test is a second if, not an else.
Consecutive_accept_noelse(c, o) ==
    LET n == c.consec_n
        mask == Mask(n)
        all_pressed == (BitAnd8(o.hist, mask) = mask)
        all_released == (BitAnd8(o.hist, mask) = 0)
        o1 == IF ~o.state_ /\ all_pressed
              THEN [o EXCEPT !.state_ = TRUE, !.pressed_ = TRUE]
              ELSE o
    IN  IF o1.state_ /\ all_released
        THEN [o1 EXCEPT !.state_ = FALSE, !.released_ = TRUE]
        ELSE o1

\* The acceptance rule, applied to an object whose flags are cleared.
Consecutive_accept(c, o) ==
    LET n == c.consec_n
        mask == Mask(n)
        all_pressed == (BitAnd8(o.hist, mask) = mask)
        all_released == (BitAnd8(o.hist, mask) = 0)
    IN  IF ~o.state_ /\ all_pressed
        THEN [o EXCEPT !.state_ = TRUE, !.pressed_ = TRUE]
        ELSE IF o.state_ /\ all_released
             THEN [o EXCEPT !.state_ = FALSE, !.released_ = TRUE]
             ELSE o

Consecutive_update(c, o, raw_down) ==
    LET o1 == [o EXCEPT !.pressed_ = FALSE, !.released_ = FALSE]
        o2 == [o1 EXCEPT !.hist = update_hist(o1.hist, raw_down)]
    IN  Consecutive_accept(c, o2)

Consecutive_history(o) == o.hist

(***************************************************************************)
(* EdgeGated engine (buttonDebounceEdgeGated.cpp).                         *)
(***************************************************************************)
EdgeGated_reset(c, o, start_down) ==
    [o EXCEPT !.state_ = start_down, !.pressed_ = FALSE, !.released_ = FALSE,
              !.hist = LevelPattern(start_down), !.unstable = 0, !.bounce_k = 0,
              !.loc = NoLocals]

\* Mutant of EdgeGated_bouncing_now: strict comparison.
EdgeGated_bouncing_now_strict(c, edges) == edges > c.edge_threshold

\* bouncing_now = (edges >= cfg_.edge_threshold)
EdgeGated_bouncing_now(c, edges) == edges >= c.edge_threshold

\* Mutant of EdgeGated_bounce_k: the increment is not saturated.
EdgeGated_bounce_k_wrap(bounce_k, bouncing_now) ==
    IF bouncing_now THEN U8(bounce_k + 1) ELSE 0

\* The new value of bounce_k.
EdgeGated_bounce_k(bounce_k, bouncing_now) ==
    IF bouncing_now
    THEN (IF bounce_k < 255 THEN U8(bounce_k + 1) ELSE bounce_k)
    ELSE 0

\* bouncing = (bounce_k >= cfg_.bounce_confirm)
EdgeGated_bouncing(c, bounce_k) == bounce_k >= c.bounce_confirm

\* The new value of unstable, before the timeout check.
EdgeGated_unstable(unstable, bouncing) ==
    IF bouncing
    THEN (IF unstable < 255 THEN U8(unstable + 1) ELSE unstable)
    ELSE 0

\* Mutant of EdgeGated_recenter: the history is cleared whatever the level.
EdgeGated_recenter_zero(o) ==
    [o EXCEPT !.hist = 0, !.unstable = 0, !.bounce_k = 0]

\* Mutant of EdgeGated_recenter: the history is set to the opposite level.
EdgeGated_recenter_inverted(o) ==
    [o EXCEPT !.hist = LevelPattern(~o.state_), !.unstable = 0, !.bounce_k = 0]

\* The timeout branch: recenter to the current debounced state.
EdgeGated_recenter(o) ==
    [o EXCEPT !.hist = LevelPattern(o.state_), !.unstable = 0, !.bounce_k = 0]

\* Mutant of EdgeGated_accept: the release branch is missing.
EdgeGated_accept_pressonly(c, o) ==
    LET n == c.consec_n
        mask == Mask(n)
        all_pressed == (BitAnd8(o.hist, mask) = mask)
    IN  IF ~o.state_ /\ all_pressed
        THEN [o EXCEPT !.state_ = TRUE, !.pressed_ = TRUE]
        ELSE o

\* The acceptance rule reused from the Consecutive engine.
EdgeGated_accept(c, o) ==
    LET n == c.consec_n
        mask == Mask(n)
        all_pressed == (BitAnd8(o.hist, mask) = mask)
        all_released == (BitAnd8(o.hist, mask) = 0)
    IN  IF ~o.state_ /\ all_pressed
        THEN [o EXCEPT !.state_ = TRUE, !.pressed_ = TRUE]
        ELSE IF o.state_ /\ all_released
             THEN [o EXCEPT !.state_ = FALSE, !.released_ = TRUE]
             ELSE o

\* The locals of one update call, as computed before the timeout check.
EdgeGated_locals(c, o, raw_down) ==
    The({ LET bouncing_now == EdgeGated_bouncing_now(c, edges)
              bounce_k == EdgeGated_bounce_k(o.bounce_k, bouncing_now)
              bouncing == EdgeGated_bouncing(c, bounce_k)
              unstable == EdgeGated_unstable(o.unstable, bouncing)
          IN  [hist |-> hist, edges |-> edges, bouncing_now |-> bouncing_now,
               bouncing |-> bouncing, bounce_k |-> bounce_k, unstable |-> unstable,
               timeout |-> (unstable >= c.unstable_timeout)] :
          hist \in {update_hist(o.hist, raw_down)},
          edges \in {edgeCount8(update_hist(o.hist, raw_down))} })

\* Mutant of EdgeGated_update: the acceptance rule is not gated by bouncing.
EdgeGated_update_ungated(c, o, raw_down) ==
    The({ LET o2 == [o EXCEPT !.pressed_ = FALSE, !.released_ = FALSE,
                              !.hist = l.hist,
                              !.bounce_k = l.bounce_k, !.unstable = l.unstable,
                              !.loc = l]
          IN  IF l.timeout
              THEN EdgeGated_recenter(o2)
              ELSE EdgeGated_accept(c, o2) :
          l \in {EdgeGated_locals(c, o, raw_down)} })

EdgeGated_update(c, o, raw_down) ==
    The({ LET o2 == [o EXCEPT !.pressed_ = FALSE, !.released_ = FALSE,
                              !.hist = l.hist,
                              !.bounce_k = l.bounce_k, !.unstable = l.unstable,
                              !.loc = l]
          IN  IF l.timeout
              THEN EdgeGated_recenter(o2)
              ELSE IF ~l.bouncing THEN EdgeGated_accept(c, o2) ELSE o2 :
          l \in {EdgeGated_locals(c, o, raw_down)} })

EdgeGated_history(o) == o.hist

(***************************************************************************)
(* The build: exactly one engine is compiled in.                           *)
(***************************************************************************)
reset(e, c, o, start_down) ==
    CASE e = "Integrator"  -> Integrator_reset(c, o, start_down)
      [] e = "Consecutive" -> Consecutive_reset(c, o, start_down)
      [] e = "EdgeGated"   -> EdgeGated_reset(c, o, start_down)

update(e, c, o, raw_down) ==
    CASE e = "Integrator"  -> Integrator_update(c, o, raw_down)
      [] e = "Consecutive" -> Consecutive_update(c, o, raw_down)
      [] e = "EdgeGated"   -> EdgeGated_update(c, o, raw_down)

history(e, o) ==
    CASE e = "Integrator"  -> Integrator_history(o)
      [] e = "Consecutive" -> Consecutive_history(o)
      [] e = "EdgeGated"   -> EdgeGated_history(o)

\* ButtonDebounce(const Config& cfg) : cfg_(cfg) { reset(false); }
construct(e, c) == reset(e, c, Fresh, FALSE)

(***************************************************************************)
(* State.                                                                  *)
(***************************************************************************)
VARIABLES
    engine,     \* which engine .cpp the build compiled
    cfg_,       \* Config cfg_
    state_,     \* bool state_     (down())
    pressed_,   \* bool pressed_   (pressed())
    released_,  \* bool released_  (released())
    acc,        \* eng_.integrator.acc
    hist,       \* eng_.history.hist
    unstable,   \* eng_.history.unstable
    bounce_k,   \* eng_.history.bounce_k
    \* What the caller did (bookkeeping for the properties):
    op,         \* the last call: "construct", "reset" or "update"
    arg,        \* its bool argument (start_down or raw_down)
    prev_down,  \* down() immediately before the last call
    run_len,    \* number of update calls since the last reset whose raw value
                \* equals arg and that came in a row (exact below MaxRun)
    base,       \* the state the current run started from
    loc,        \* locals of the last update (EdgeGated)
    hold,       \* the caller's input: "none" (any), held at "true"/"false", or
                \* "alt" (each update passes the opposite of the one before)
    phase,      \* parity of the number of ticks since the input is held
    since,      \* Integrator build: number of update calls after the last
                \* update that set pressed() or released(), with no reset in
                \* between (exact below MaxSince; MaxSince when no such update)
    twin        \* EdgeGated build: a Consecutive debouncer with the same Config,
                \* given the same calls (side-by-side run); kept (on = TRUE)
                \* from a reset for as long as the edge count of every tick
                \* stayed below edge_threshold

vars == <<engine, cfg_, state_, pressed_, released_, acc, hist, unstable,
          bounce_k, op, arg, prev_down, run_len, base, loc, hold, phase, since,
          twin>>

Obj ==
    [state_ |-> state_, pressed_ |-> pressed_, released_ |-> released_,
     acc |-> acc, hist |-> hist, unstable |-> unstable, bounce_k |-> bounce_k,
     loc |-> loc]

SetObj(o) ==
    /\ state_' = o.state_
    /\ pressed_' = o.pressed_
    /\ released_' = o.released_
    /\ acc' = o.acc
    /\ hist' = o.hist
    /\ unstable' = o.unstable
    /\ bounce_k' = o.bounce_k
    /\ loc' = o.loc

BaseOf(o, how) == [down |-> o.state_, acc |-> o.acc, op |-> how]

\* No side-by-side run (other engines, or the comparison is over).
NoTwin == [on |-> FALSE, o |-> Fresh]

\* The twin after reset(start_down) on both debouncers.
TwinReset(e, c, t, start_down) ==
    IF e = "EdgeGated"
    THEN [on |-> TRUE, o |-> Consecutive_reset(c, t.o, start_down)]
    ELSE NoTwin

\* The twin after update(raw_down) on both debouncers; bouncing_now is the
\* EdgeGated local of that tick.
TwinUpdate(c, t, raw_down, bouncing_now) ==
    IF t.on /\ ~bouncing_now
    THEN [on |-> TRUE, o |-> Consecutive_update(c, t.o, raw_down)]
    ELSE NoTwin

\* The state after construction, for a caller in mode h (hold).
InitCaller(e, c, h) ==
    \E o \in {construct(e, c)} :
    /\ engine = e
    /\ cfg_ = c
    /\ state_ = o.state_
    /\ pressed_ = o.pressed_
    /\ released_ = o.released_
    /\ acc = o.acc
    /\ hist = o.hist
    /\ unstable = o.unstable
    /\ bounce_k = o.bounce_k
    /\ op = "construct"
    /\ arg = FALSE
    /\ prev_down = FALSE
    /\ run_len = 0
    /\ base = BaseOf(o, "reset")
    /\ loc = o.loc
    /\ hold = h
    /\ phase = 0
    /\ since = MaxSince
    /\ twin = TwinReset(e, c, NoTwin, FALSE)

InitWith(e, c) == InitCaller(e, c, "none")

Init == \E e \in Engines : \E c \in ConfigsOf(e) : InitWith(e, c)

\* The caller calls reset(start_down).
Reset ==
    /\ hold \in {"none", "alt"}
    /\ \E start_down \in BOOLEAN :
        \E o \in {reset(engine, cfg_, Obj, start_down)} :
        /\ SetObj(o)
        /\ op' = "reset"
        /\ arg' = start_down
        /\ prev_down' = state_
        /\ run_len' = 0
        /\ base' = BaseOf(o, "reset")
        /\ since' = MaxSince
        /\ twin' = TwinReset(engine, cfg_, twin, start_down)
    /\ UNCHANGED <<engine, cfg_, hold, phase>>

\* The caller calls update(raw_down): one tick.
Update ==
    /\ \E raw_down \in BOOLEAN :
        /\ CASE hold = "none" -> TRUE
             [] hold = "alt"  -> (op = "update" => raw_down # arg)
             [] OTHER         -> raw_down = (hold = "true")
        /\ \E o \in {update(engine, cfg_, Obj, raw_down)} :
           LET same == (run_len > 0 /\ raw_down = arg) IN
           /\ SetObj(o)
           /\ op' = "update"
           /\ arg' = raw_down
           /\ prev_down' = state_
           /\ run_len' = IF same THEN (IF run_len < MaxRun THEN run_len + 1 ELSE run_len)
                                 ELSE 1
           /\ base' = IF same \/ run_len = 0 THEN base ELSE BaseOf(Obj, "update")
           /\ since' = IF engine # "Integrator" THEN since
                       ELSE IF pressed_ \/ released_ THEN 1
                       ELSE IF since < MaxSince THEN since + 1 ELSE since
           /\ twin' = TwinUpdate(cfg_, twin, raw_down, o.loc.bouncing_now)
    /\ phase' = IF hold = "none" THEN phase ELSE 1 - phase
    /\ UNCHANGED <<engine, cfg_, hold>>

Next == Reset \/ Update

Spec == Init /\ [][Next]_vars

(***************************************************************************)
(* The caller that, at some point, holds the raw input at one value for    *)
(* ever: it stops calling reset and passes that value to every update.     *)
(* update is called at a fixed tick interval (the class contract), which   *)
(* is the weak fairness of Update.                                         *)
(***************************************************************************)
HoldInput ==
    /\ hold = "none"
    /\ \E v \in {"true", "false"} : hold' = v
    /\ UNCHANGED <<engine, cfg_, state_, pressed_, released_, acc, hist, unstable,
                   bounce_k, op, arg, prev_down, run_len, base, loc, phase, since,
                   twin>>

\* The documented ranges of the EdgeGated fields, chatter detection enabled.
EdgeGatedDocumented(c) ==
    /\ c.consec_n \in 1..8
    /\ c.edge_threshold \in 1..8
    /\ c.unstable_timeout >= 1
    /\ c.bounce_confirm >= 1

HoldConfigs ==
    { [DefaultConfig EXCEPT !.consec_n = n, !.edge_threshold = e,
                            !.unstable_timeout = t, !.bounce_confirm = k] :
        n \in 1..MaxHoldN, e \in 1..MaxHoldThr,
        t \in 1..MaxHoldTimeout, k \in 1..MaxHoldConfirm }

InitHold ==
    \E c \in {d \in HoldConfigs : EdgeGatedDocumented(d)} : InitWith("EdgeGated", c)

NextHold == Reset \/ Update \/ HoldInput

SpecHold == InitHold /\ [][NextHold]_vars /\ WF_vars(Update)

(***************************************************************************)
(* Configurations whose counters can reach the top of uint8_t: every tick  *)
(* counts as bouncing (edge_threshold = 0) and chatter is confirmed only   *)
(* at bounce_k = 255; integ_max = 255.  Their caller holds the raw input   *)
(* from construction on.  SpecSat has these behaviours and those of Spec.  *)
(***************************************************************************)
SatConfigs(e) ==
    CASE e = "Integrator"  -> { [DefaultConfig EXCEPT !.integ_max = U8Max] }
      [] e = "Consecutive" -> { }
      [] e = "EdgeGated"   -> { [DefaultConfig EXCEPT !.edge_threshold = 0,
                                                      !.unstable_timeout = t,
                                                      !.bounce_confirm = U8Max] :
                                t \in {3, U8Max} }

InitSat ==
    \/ Init
    \/ \E e \in Engines : \E c \in SatConfigs(e) : \E h \in {"true", "false"} :
          InitCaller(e, c, h)

SpecSat == InitSat /\ [][Next]_vars

(***************************************************************************)
(* The EdgeGated engine with the default Config under a strictly           *)
(* alternating raw input: after construction or a reset the first sample   *)
(* is either value, every further one the opposite of the one before.      *)
(***************************************************************************)
InitAlt == InitCaller("EdgeGated", DefaultConfig, "alt")

SpecAlt == InitAlt /\ [][Next]_vars

(***************************************************************************)
(* Configurations in their documented ranges.                              *)
(***************************************************************************)
IntegratorValid(c) ==
    /\ 0 <= c.integ_off
    /\ c.integ_off < c.integ_on
    /\ c.integ_on <= c.integ_max

InRange ==
    CASE engine = "Integrator"  -> IntegratorValid(cfg_)
      [] engine = "Consecutive" -> cfg_.consec_n \in 1..8
      [] engine = "EdgeGated"   -> /\ cfg_.consec_n \in 1..8
                                   /\ cfg_.edge_threshold \in 0..8
                                   /\ cfg_.unstable_timeout >= 1
                                   /\ cfg_.bounce_confirm >= 1

\* The last call was update(v) and is the k-th of a run of update(v) calls.
InRun(v, k) == op = "update" /\ arg = v /\ run_len = k

\* The run counter is exact (not saturated at MaxRun).
RunExact == run_len < MaxRun

\* Bit k of the byte x, as 0 or 1.
Bit(x, k) == (x \div Pow2(k)) % 2

\* The byte x read as the shift of the byte h by one sample raw: bit 0 is
\* raw, bit k is bit k-1 of h.
ShiftedIn(x, h, raw) ==
    /\ Bit(x, 0) = (IF raw THEN 1 ELSE 0)
    /\ \A k \in 1..7 : Bit(x, k) = Bit(h, k - 1)

HistoryEngine == engine \in {"Consecutive", "EdgeGated"}

(***************************************************************************)
(* Properties.                                                             *)
(***************************************************************************)

\* C1: after every update call, pressed() holds iff down() was false before
\* the call and is true after it, and released() holds iff down() was true
\* before the call and is false after it (all engines, all configurations).
C1_OneShot ==
    op = "update" =>
        /\ pressed_ <=> (~prev_down /\ state_)
        /\ released_ <=> (prev_down /\ ~state_)

\* An update of the overlapping-threshold Integrator that raised released()
\* on the tick after a press.
C1_Witness ==
    /\ engine = "Integrator"
    /\ cfg_.integ_off >= cfg_.integ_on
    /\ op = "update"
    /\ released_
    /\ prev_down
    /\ ~state_

\* C2: pressed() and released() are never both true (all engines, all
\* configurations, including consec_n = 0 and overlapping thresholds).
C2_NeverBoth == ~(pressed_ /\ released_)

\* An update with consec_n = 0, where both all_pressed and all_released hold,
\* that raised pressed().
C2_Witness ==
    /\ engine = "Consecutive"
    /\ cfg_.consec_n = 0
    /\ op = "update"
    /\ pressed_

\* C3: Consecutive, consec_n = n in 1..8: in a run of update(true) calls that
\* started from a released state (right after reset(false) or after an
\* update(false)), pressed() is true on the n-th call and false on each of
\* the first n-1 calls.
C3_ConsecutiveNth ==
    ( /\ engine = "Consecutive"
      /\ cfg_.consec_n \in 1..8
      /\ op = "update" /\ arg = TRUE
      /\ base.down = FALSE
      /\ run_len <= cfg_.consec_n
      /\ RunExact )
    => (pressed_ <=> run_len = cfg_.consec_n)

\* The press on the 3rd true sample of a run restarted by an update(false).
C3_Witness ==
    /\ engine = "Consecutive"
    /\ cfg_.consec_n = 3
    /\ InRun(TRUE, 3)
    /\ base.down = FALSE
    /\ base.op = "update"
    /\ pressed_

\* C4: Integrator, valid configuration (6/4/2 among them): in a run of
\* update(true) calls that started released with acc = 0, pressed() is true
\* on exactly the integ_on-th call.
C4_IntegratorOn ==
    ( /\ engine = "Integrator"
      /\ IntegratorValid(cfg_)
      /\ op = "update" /\ arg = TRUE
      /\ base.down = FALSE /\ base.acc = 0
      /\ RunExact )
    => (pressed_ <=> run_len = cfg_.integ_on)

\* The press on the 4th true sample after reset(false), configuration 6/4/2.
C4_Witness ==
    /\ engine = "Integrator"
    /\ cfg_ = DefaultConfig
    /\ InRun(TRUE, 4)
    /\ base = [down |-> FALSE, acc |-> 0, op |-> "reset"]
    /\ pressed_

\* C5 as stated: Integrator 6/4/2, from any reachable pressed state, the 2nd
\* of two consecutive update(false) calls sets released().
C5_AnyPressedState ==
    ( /\ engine = "Integrator"
      /\ cfg_ = DefaultConfig
      /\ InRun(FALSE, 2)
      /\ base.down = TRUE )
    => released_

\* C5 amended: Integrator 6/4/2, in a run of update(false) calls that started
\* from a pressed state with acc = a, released() is true on exactly the
\* (a - integ_off)-th call: the 2nd call when a = integ_on = 4 (the state
\* right after a press), the 4th call after reset(true).
C5_FromAcc ==
    ( /\ engine = "Integrator"
      /\ cfg_ = DefaultConfig
      /\ op = "update" /\ arg = FALSE
      /\ base.down = TRUE
      /\ RunExact )
    => (released_ <=> run_len = base.acc - cfg_.integ_off)

\* The release on the 2nd false sample after the press at acc = 4.
C5_Witness ==
    /\ engine = "Integrator"
    /\ cfg_ = DefaultConfig
    /\ InRun(FALSE, 2)
    /\ base = [down |-> TRUE, acc |-> 4, op |-> "update"]
    /\ released_

\* C6: EdgeGated: on every update in which chatter is confirmed (bounce_k >=
\* bounce_confirm after the bounce_k update of that tick), down() is left
\* unchanged and no one-shot flag is set, whatever the history holds.
C6_GatedWhileBouncing ==
    ( /\ engine = "EdgeGated"
      /\ op = "update"
      /\ loc.bounce_k >= cfg_.bounce_confirm )
    => (state_ = prev_down /\ ~pressed_ /\ ~released_)

\* A gated tick whose history satisfies the acceptance rule for a press.
C6_Witness ==
    /\ engine = "EdgeGated"
    /\ op = "update"
    /\ loc.bounce_k >= cfg_.bounce_confirm
    /\ loc.unstable < cfg_.unstable_timeout
    /\ cfg_.consec_n \in 1..8
    /\ ~state_
    /\ BitAnd8(hist, Mask(cfg_.consec_n)) = Mask(cfg_.consec_n)

\* C7: EdgeGated, unstable_timeout >= 1: on the update in which unstable
\* reaches unstable_timeout, the call returns with history() = 0xFF if down()
\* else 0x00, unstable = bounce_k = 0, down() unchanged and no flag set.
C7_TimeoutRecenter ==
    ( /\ engine = "EdgeGated"
      /\ cfg_.unstable_timeout >= 1
      /\ op = "update"
      /\ loc.unstable >= cfg_.unstable_timeout )
    => ( /\ EdgeGated_history(Obj) = (IF state_ THEN 255 ELSE 0)
         /\ unstable = 0
         /\ bounce_k = 0
         /\ state_ = prev_down
         /\ ~pressed_ /\ ~released_ )

\* A recenter while pressed that rewrote a history other than 0xFF.
C7_Witness ==
    /\ engine = "EdgeGated"
    /\ cfg_.unstable_timeout >= 2
    /\ op = "update"
    /\ loc.unstable >= cfg_.unstable_timeout
    /\ state_
    /\ loc.hist # 255
    /\ hist = 255

\* C8: EdgeGated, documented configuration with chatter detection enabled:
\* once the raw input is held at v on every update, down() eventually is v.
C8_NoLockup ==
    /\ (hold = "true") ~> (state_ = TRUE)
    /\ (hold = "false") ~> (state_ = FALSE)

\* C9: in-range configuration, any engine: reset(b) followed immediately by
\* one update(b) leaves down() = b and no one-shot flag set.
C9_ResetThenUpdate ==
    ( /\ InRange
      /\ InRun(arg, 1)
      /\ base.op = "reset"
      /\ base.down = arg )
    => (state_ = arg /\ ~pressed_ /\ ~released_)

\* reset(true) then update(true), EdgeGated, on a tick whose edge count
\* reaches edge_threshold.
C9_Witness ==
    /\ engine = "EdgeGated"
    /\ InRange
    /\ InRun(TRUE, 1)
    /\ base.op = "reset"
    /\ base.down = TRUE
    /\ loc.bouncing_now
    /\ state_

\* C10: in-range configuration (Integrator valid; history engines consec_n
\* >= 1): update(v) in a state where down() = v leaves down() = v and sets
\* no one-shot flag.
C10_SettledIdempotent ==
    ( /\ op = "update"
      /\ prev_down = arg
      /\ IF engine = "Integrator" THEN IntegratorValid(cfg_) ELSE cfg_.consec_n >= 1 )
    => (state_ = arg /\ ~pressed_ /\ ~released_)

\* update(true) while pressed, in the middle of a run, Consecutive n = 1.
C10_Witness ==
    /\ engine = "Consecutive"
    /\ cfg_.consec_n = 1
    /\ InRun(TRUE, 3)
    /\ prev_down
    /\ state_

\* C11 as stated: history engines: every update(raw) leaves history() equal
\* to the history before the call shifted by one, with raw in bit 0.
C11_ShiftRegister ==
    [][ (HistoryEngine /\ op' = "update")
        => ShiftedIn(history(engine, Obj)', hist, arg') ]_vars

\* C11 amended: the same, for every update except an EdgeGated update that
\* takes the timeout branch; that one leaves history() = 0xFF or 0x00.
C11_ShiftUnlessRecenter ==
    [][ (HistoryEngine /\ op' = "update")
        => IF engine = "EdgeGated" /\ loc'.timeout
           THEN history(engine, Obj)' = LevelPattern(state_')
           ELSE ShiftedIn(history(engine, Obj)', hist, arg') ]_vars

\* An EdgeGated update without timeout that left a mixed history (0b0101),
\* and one of the Consecutive engine.
C11_Witness ==
    /\ op = "update"
    /\ \/ engine = "EdgeGated" /\ ~loc.timeout /\ cfg_.unstable_timeout >= 1
       \/ engine = "Consecutive"
    /\ history(engine, Obj) = 5
    /\ arg = TRUE

\* The domains of the counters.
CounterDomains ==
    /\ acc \in 0..cfg_.integ_max
    /\ bounce_k \in 0..U8Max /\ loc.bounce_k \in 0..U8Max
    /\ unstable \in 0..U8Max /\ loc.unstable \in 0..U8Max

\* One update moved each counter by at most one in the direction of the
\* sample and did not wrap: loc' holds the EdgeGated counters as they were
\* after their increment, before the timeout check.
CountersStep ==
    /\ engine = "Integrator" =>
          IF arg' THEN acc' \in {acc, acc + 1} ELSE acc' \in {acc, acc - 1}
    /\ engine = "EdgeGated" =>
          /\ loc'.bounce_k = (IF loc'.bouncing_now
                              THEN (IF bounce_k = U8Max THEN U8Max ELSE bounce_k + 1)
                              ELSE 0)
          /\ loc'.unstable = (IF loc'.bouncing
                              THEN (IF unstable = U8Max THEN U8Max ELSE unstable + 1)
                              ELSE 0)

\* C12: every configuration, every sequence of reset and update calls: acc
\* stays in 0..integ_max, bounce_k and unstable stay in 0..255, and no
\* update wraps a counter around.
C12_CountersInDomain ==
    [][ /\ CounterDomains
        /\ CounterDomains'
        /\ op' = "update" => CountersStep ]_vars

\* bounce_k held at 255 by the saturation test for a second tick or more.
C12_Witness ==
    /\ engine = "EdgeGated"
    /\ op = "update"
    /\ loc.bouncing_now
    /\ loc.bounce_k = U8Max
    /\ loc.unstable >= 2
    /\ bounce_k = U8Max

\* C13: history engines, consec_n = n in 1..8: an update that sets pressed()
\* is at least the n-th of a run of update(true) calls since the last reset,
\* and an update that sets released() is at least the n-th of a run of
\* update(false) calls since the last reset.
C13_OnlyAfterNSamples ==
    ( /\ HistoryEngine
      /\ cfg_.consec_n \in 1..8
      /\ op = "update" )
    => /\ pressed_ => (arg = TRUE /\ run_len >= cfg_.consec_n)
       /\ released_ => (arg = FALSE /\ run_len >= cfg_.consec_n)

\* An EdgeGated release, consec_n = 2, on a history that still holds bits
\* written by reset(true) above the two sampled ones.
C13_Witness ==
    /\ engine = "EdgeGated"
    /\ cfg_.consec_n = 2
    /\ InRun(FALSE, 2)
    /\ base.op = "reset"
    /\ released_
    /\ hist = 252

\* C14: Integrator, valid configuration: an update(v) that is at least the
\* integ_max-th of a run of update(v) calls leaves down() = v, whatever the
\* state the run started from.
C14_LatencyBound ==
    ( /\ engine = "Integrator"
      /\ IntegratorValid(cfg_)
      /\ op = "update"
      /\ run_len >= cfg_.integ_max )
    => state_ = arg

\* The worst case: integ_on = integ_max = 6, a run of update(true) from
\* acc = 0 presses on exactly its 6th call.
C14_Witness ==
    /\ engine = "Integrator"
    /\ IntegratorValid(cfg_)
    /\ cfg_.integ_max = 6 /\ cfg_.integ_on = 6
    /\ InRun(TRUE, 6)
    /\ base.acc = 0 /\ base.down = FALSE
    /\ pressed_

\* C15: EdgeGated with bounce_confirm >= 1 and unstable_timeout >= 1, next
\* to a Consecutive debouncer with the same consec_n, given the same reset
\* and the same raw samples: after every update up to which the edge count
\* stayed below edge_threshold on every tick, the two agree on down(),
\* pressed(), released() and history().
C15_FallsBackToConsecutive ==
    ( /\ engine = "EdgeGated"
      /\ cfg_.bounce_confirm >= 1
      /\ cfg_.unstable_timeout >= 1
      /\ op = "update"
      /\ twin.on )
    => /\ state_ = twin.o.state_
       /\ pressed_ = twin.o.pressed_
       /\ released_ = twin.o.released_
       /\ EdgeGated_history(Obj) = Consecutive_history(twin.o)

\* Both debouncers release on the 2nd false sample after reset(true).
C15_Witness ==
    /\ engine = "EdgeGated"
    /\ cfg_.bounce_confirm >= 1
    /\ cfg_.unstable_timeout >= 1
    /\ cfg_.consec_n = 2
    /\ InRun(FALSE, 2)
    /\ twin.on
    /\ twin.o.released_
    /\ released_

\* The number of positions i in 0..6 at which bit i and bit i+1 of h differ.
AdjacentTransitions(h) == Cardinality({ i \in 0..6 : Bit(h, i) # Bit(h, i + 1) })

\* C16: the edge count an EdgeGated update computes from the history is the
\* number of transitions between adjacent samples of the 8-sample window
\* (so 0 for 0x00 and for 0xFF).
C16_EdgeCountIsTransitions ==
    (engine = "EdgeGated" /\ op = "update")
    => loc.edges = AdjacentTransitions(loc.hist)

\* EdgeGated with edge_threshold = 0, the other fields in their documented
\* ranges.
ZeroThreshold ==
    /\ engine = "EdgeGated"
    /\ cfg_.edge_threshold = 0
    /\ cfg_.consec_n \in 1..8
    /\ cfg_.unstable_timeout >= 1
    /\ cfg_.bounce_confirm >= 1

\* C17 as stated: EdgeGated, edge_threshold = 0: no update ever changes
\* down() or sets pressed() or released().
C17_PermanentlyGated ==
    (ZeroThreshold /\ op = "update")
    => (state_ = prev_down /\ ~pressed_ /\ ~released_)

\* C17 amended: EdgeGated, edge_threshold = 0: every tick is flagged as
\* bouncing; with bounce_confirm = 1 no update ever changes down() or sets a
\* flag; with a larger bounce_confirm only an update on which bounce_k is
\* still below bounce_confirm (one of the first bounce_confirm - 1 after a
\* reset or a timeout recenter) can.
C17_GatedOnceConfirmed ==
    (ZeroThreshold /\ op = "update")
    => /\ loc.bouncing_now
       /\ (state_ # prev_down \/ pressed_ \/ released_) =>
             (cfg_.bounce_confirm >= 2 /\ loc.bounce_k < cfg_.bounce_confirm)

\* edge_threshold = 0, bounce_confirm = 1: a gated tick on which the history
\* satisfies the acceptance rule for a press.
C17_Witness ==
    /\ ZeroThreshold
    /\ cfg_.bounce_confirm = 1
    /\ op = "update"
    /\ ~loc.timeout
    /\ ~state_
    /\ BitAnd8(hist, Mask(cfg_.consec_n)) = Mask(cfg_.consec_n)
    /\ ~pressed_

\* C18: Consecutive, consec_n = 0: every update, whatever the raw sample,
\* flips down() and sets exactly one flag: pressed() when the level was
\* released, released() when it was pressed; the level stays a boolean.
C18_AlwaysTransition ==
    ( /\ engine = "Consecutive"
      /\ cfg_.consec_n = 0
      /\ op = "update" )
    => /\ state_ \in BOOLEAN
       /\ state_ = ~prev_down
       /\ pressed_ = ~prev_down
       /\ released_ = prev_down

\* consec_n = 0: a release on the 2nd of two update(true) calls.
C18_Witness ==
    /\ engine = "Consecutive"
    /\ cfg_.consec_n = 0
    /\ InRun(TRUE, 2)
    /\ prev_down
    /\ released_
    /\ ~state_

\* An update of the Integrator that set a flag by moving acc onto its
\* threshold: pressed() by raising acc to exactly integ_on, released() by
\* lowering it to exactly integ_off.
EventsAtThresholds ==
    /\ pressed_ => (arg = TRUE /\ acc = cfg_.integ_on)
    /\ released_ => (arg = FALSE /\ acc = cfg_.integ_off)

\* C19 as stated: Integrator, valid configuration, no reset in between:
\* events fire only at the thresholds, two successive events are at least
\* integ_on - integ_off update calls apart, and the level never changes on
\* two update calls in a row.
C19_NoTickToTickChatter ==
    ( /\ engine = "Integrator"
      /\ IntegratorValid(cfg_)
      /\ op = "update" )
    => /\ EventsAtThresholds
       /\ (pressed_ \/ released_) =>
             (since >= cfg_.integ_on - cfg_.integ_off /\ since >= 2)

\* C19 amended: Integrator, valid configuration, no reset in between:
\* events fire only at the thresholds and two successive events are at
\* least integ_on - integ_off update calls apart; the level never changes on
\* two update calls in a row when integ_on - integ_off >= 2.
C19_HysteresisGap ==
    ( /\ engine = "Integrator"
      /\ IntegratorValid(cfg_)
      /\ op = "update" )
    => /\ EventsAtThresholds
       /\ (pressed_ \/ released_) => since >= cfg_.integ_on - cfg_.integ_off
       /\ ((pressed_ \/ released_) /\ cfg_.integ_on - cfg_.integ_off >= 2) =>
             since >= 2

\* Configuration 6/4/2: a release exactly 2 updates after the press.
C19_Witness ==
    /\ engine = "Integrator"
    /\ cfg_ = DefaultConfig
    /\ op = "update"
    /\ released_
    /\ since = 2

\* C20: EdgeGated, default configuration (3/4/16/1), strictly alternating
\* raw input after a reset: no update sets pressed() or released() or
\* changes down(), before chatter is confirmed, while it is, and after each
\* timeout recenter.
C20_AlternatingNeverAccepted ==
    ( /\ engine = "EdgeGated"
      /\ cfg_ = DefaultConfig
      /\ hold = "alt"
      /\ op = "update" )
    => (~pressed_ /\ ~released_ /\ state_ = prev_down)

\* The second tick after a timeout recenter that followed reset(true): not
\* bouncing yet, the acceptance rule ran on a recentred history.
C20_Witness ==
    /\ engine = "EdgeGated"
    /\ cfg_ = DefaultConfig
    /\ hold = "alt"
    /\ op = "update"
    /\ state_
    /\ ~loc.bouncing
    /\ hist \in {253, 254}
    /\ twin.on = FALSE

====
